---- MODULE Spec2Model ----
(***************************************************************************)
(* Model of the PDF extractor / interrogator: the App component's state    *)
(* (documents, isProcessing, uploadProgress, chatMessages, query,          *)
(* isChatLoading), its handlers (handleFileUpload, handleSendMessage,      *)
(* deleteDocument) and the two service functions (extractPdfMetadata,      *)
(* interrogateDocuments).                                                  *)
(*                                                                         *)
(* A JavaScript string is a sequence of glyphs (each glyph a TLA+ string); *)
(* the empty string is << >>.  The JavaScript value undefined is the       *)
(* one-element sequence `undefined', whose glyph occurs in no string.      *)
(***************************************************************************)
EXTENDS Integers, Sequences, FiniteSets, TLC

\* ---- bounds ----
MaxBatch == 2        \* longest file list handed to one handleFileUpload
MaxExtract == 2      \* crypto.randomUUID() results over the whole session
MaxTurns == 4        \* conversation turns kept in chatMessages

VARIABLES
  documents,         \* useState<ExtractedDocument[]>
  isProcessing,      \* useState<boolean>
  uploadProgress,    \* useState<{current, total}>
  chatMessages,      \* useState<ChatMessage[]>
  query,             \* useState<string>
  isChatLoading,     \* useState<boolean>
  files,             \* event.target.files of the running handleFileUpload
  i,                 \* loop index of handleFileUpload (1-based)
  newDocs,           \* local newDocs of handleFileUpload
  pc,                \* position of handleFileUpload
  extractResp,       \* settled result of ai.models.generateContent (extraction)
  attempted,         \* indices of files for which extractPdfMetadata was called
  uuidCount,         \* number of crypto.randomUUID() results handed out
  inFlight,          \* extraction requests issued and not yet settled
  outcomes,          \* per completed file of the running batch: did
                     \* extractPdfMetadata return (TRUE) or throw (FALSE)
  chatReq,           \* interrogation request in flight (or NoReq)
  chatResp           \* settled result of ai.models.generateContent (chat)

vars == <<documents, isProcessing, uploadProgress, chatMessages, query,
          isChatLoading, files, i, newDocs, pc, extractResp, attempted,
          uuidCount, inFlight, outcomes, chatReq, chatResp>>

batchVars == <<isProcessing, uploadProgress, files, i, newDocs, pc,
               extractResp, attempted, uuidCount, inFlight, outcomes>>
chatVars == <<chatMessages, query, isChatLoading, chatReq, chatResp>>

\* ---- JavaScript values ----
undefined == <<"<undefined>">>

\* truthiness of a string-or-undefined value, as used by `x || y'
Truthy(v) == v # undefined /\ v # << >>

\* a || b
Or(a, b) == IF Truthy(a) THEN a ELSE b

\* String(v) as applied by a template literal `${v}'
TemplateStr(v) == IF v = undefined THEN <<"u","n","d","e","f","i","n","e","d">> ELSE v

\* ---- ExtractedDocument ----
DocKeys == {"id", "fileName", "sender", "recipient", "date", "summary",
            "content", "topics", "confidence"}

\* an object with none of the ExtractedDocument keys
EmptyObject == [k \in DocKeys |-> undefined]

OwnKey(obj, k) == obj[k] # undefined

\* { ...base, ...data }: keys of data override keys of base
ObjectSpread(base, data) ==
  [k \in DocKeys |-> IF OwnKey(data, k) THEN data[k] ELSE base[k]]

\* crypto.randomUUID(): the n-th identifier handed out, all distinct
randomUUID(n) == <<"uuid", ToString(n)>>

\* ---- JSON texts the service can answer an extraction with ----
\* A JSON text is [wellFormed, kind, obj]: kind is the type of the value it
\* denotes, obj the keys it carries when it is an object.
JsonObject(o) == [wellFormed |-> TRUE, kind |-> "object", obj |-> o]
JsonNull == [wellFormed |-> TRUE, kind |-> "null", obj |-> EmptyObject]
Malformed == [wellFormed |-> FALSE, kind |-> "none", obj |-> EmptyObject]
EmptyText == [wellFormed |-> FALSE, kind |-> "empty", obj |-> EmptyObject]
NoText == [wellFormed |-> FALSE, kind |-> "undefined", obj |-> EmptyObject]

FullPayload ==
  [EmptyObject EXCEPT !.sender = <<"J">>, !.recipient = <<"B">>,
                      !.date = <<"1">>, !.summary = <<"s">>,
                      !.content = <<"c">>, !.topics = <<"t">>,
                      !.confidence = <<"0">>]
\* an object that lacks content and summary
PartialPayload == [EmptyObject EXCEPT !.sender = <<"J">>]
\* an object that carries id and fileName of its own
OverridePayload ==
  [FullPayload EXCEPT !.id = <<"x">>, !.fileName = <<"z">>]

ExtractTexts ==
  { JsonObject(FullPayload), JsonObject(PartialPayload),
    JsonObject(OverridePayload), JsonNull, Malformed, EmptyText, NoText }

\* a settled generateContent call: fulfilled with a response or rejected
Fulfilled(t) == [ok |-> TRUE, text |-> t]
Rejected == [ok |-> FALSE, text |-> NoText]
NoResp == [ok |-> FALSE, text |-> Malformed]

ExtractResponses == { Fulfilled(t) : t \in ExtractTexts } \cup {Rejected}

\* response.text || "{}"
TextOrEmptyObject(t) ==
  IF t.kind \in {"empty", "undefined"} THEN JsonObject(EmptyObject) ELSE t

\* JSON.parse: throws on a malformed text, else yields the value
JsonParseThrows(t) == ~t.wellFormed
\* own enumerable keys of the parsed value that an ExtractedDocument has:
\* null (like a number or a boolean) contributes none to a spread
JsonParseKeys(t) == IF t.kind = "object" THEN t.obj ELSE EmptyObject

\* extractPdfMetadata after the response arrived: the try block
ExtractThrows(resp) ==
  \/ ~resp.ok
  \/ JsonParseThrows(TextOrEmptyObject(resp.text))

ExtractResult(name, uuid, resp) ==
  ObjectSpread([EmptyObject EXCEPT !.id = uuid, !.fileName = name],
               JsonParseKeys(TextOrEmptyObject(resp.text)))

\* ---- inputs ----
\* the n-th file of a selection; a selection of n files is f1 .. fn
FileName(n) == <<"f", ToString(n)>>
FileLists == { [n \in 1..len |-> FileName(n)] : len \in 1..MaxBatch }

NoReq == [active |-> FALSE, contents |-> << >>, systemInstruction |-> << >>]

\* ---- chat values ----
\* what setQuery can put into the query box
Queries == { << >>, <<" ">>, <<"q", " ">> }

\* response.text of an interrogation: absent, empty or an answer
ChatTexts == { undefined, << >>, <<"A">> }
ChatFulfilled(t) == [ok |-> TRUE, text |-> t]
ChatRejected == [ok |-> FALSE, text |-> undefined]
NoChatResp == [ok |-> FALSE, text |-> <<"<none>">>]
ChatResponses == { ChatFulfilled(t) : t \in ChatTexts } \cup {ChatRejected}

Fallback ==
  <<"I couldn't find any information regarding that query in the provided documents.">>

IsSpace(g) == g = " "
RECURSIVE TrimStart(_)
TrimStart(s) ==
  IF s # << >> /\ IsSpace(Head(s)) THEN TrimStart(Tail(s)) ELSE s
RECURSIVE TrimEnd(_)
TrimEnd(s) ==
  IF s # << >> /\ IsSpace(s[Len(s)]) THEN TrimEnd(SubSeq(s, 1, Len(s) - 1)) ELSE s
\* String.prototype.trim
Trim(s) == TrimEnd(TrimStart(s))

Init ==
  /\ documents = << >>
  /\ isProcessing = FALSE
  /\ uploadProgress = [current |-> 0, total |-> 0]
  /\ chatMessages = << >>
  /\ query = << >>
  /\ isChatLoading = FALSE
  /\ files = << >>
  /\ i = 0
  /\ newDocs = << >>
  /\ pc = "idle"
  /\ extractResp = NoResp
  /\ attempted = << >>
  /\ uuidCount = 0
  /\ inFlight = 0
  /\ outcomes = << >>
  /\ chatReq = NoReq
  /\ chatResp = NoChatResp

\* ---- handleFileUpload ----
\* the change event of the file input (enabled only while ~isProcessing):
\* everything up to the first await, which is the FileReader of files[0]
\* mutant of handleFileUpload: the file input is not disabled while a batch
\* is processing, so a second handler starts beside the running one
handleFileUpload_NotDisabled(fl) ==
  /\ Len(fl) > 0
  /\ uuidCount + Len(fl) <= MaxExtract
  /\ isProcessing' = TRUE
  /\ uploadProgress' = [current |-> 0, total |-> Len(fl)]
  /\ files' = fl
  /\ i' = 1
  /\ newDocs' = << >>
  /\ attempted' = <<1>>
  /\ outcomes' = << >>
  /\ pc' = "reading"
  /\ UNCHANGED <<documents, extractResp, uuidCount, inFlight>>
  /\ UNCHANGED chatVars

handleFileUpload(fl) ==
  /\ ~isProcessing
  /\ pc = "idle"
  /\ Len(fl) > 0
  /\ uuidCount + Len(fl) <= MaxExtract
  /\ isProcessing' = TRUE
  /\ uploadProgress' = [current |-> 0, total |-> Len(fl)]
  /\ files' = fl
  /\ i' = 1
  /\ newDocs' = << >>
  /\ attempted' = <<1>>
  /\ outcomes' = << >>
  /\ pc' = "reading"
  /\ UNCHANGED <<documents, extractResp, uuidCount, inFlight>>
  /\ UNCHANGED chatVars

\* reader.onloadend with a data URL: the promise resolves and
\* ai.models.generateContent is called
FileReadLoaded ==
  /\ pc = "reading"
  /\ pc' = "requested"
  /\ inFlight' = inFlight + 1
  /\ UNCHANGED <<documents, isProcessing, uploadProgress, files, i, newDocs,
                 extractResp, attempted, uuidCount, outcomes>>
  /\ UNCHANGED chatVars

\* reader.onloadend after a read error: reader.result is null, the split
\* throws inside the event handler and the promise is never settled
FileReadError ==
  /\ pc = "reading"
  /\ pc' = "hung"
  /\ UNCHANGED <<documents, isProcessing, uploadProgress, files, i, newDocs,
                 extractResp, attempted, uuidCount, inFlight, outcomes>>
  /\ UNCHANGED chatVars

\* the service settles the extraction request
ExtractSettle(resp) ==
  /\ pc = "requested"
  /\ extractResp' = resp
  /\ pc' = "settled"
  /\ inFlight' = inFlight - 1
  /\ UNCHANGED <<documents, isProcessing, uploadProgress, files, i, newDocs,
                 attempted, uuidCount, outcomes>>
  /\ UNCHANGED chatVars

\* mutant of ProgressAfter: the catch block puts the counter back to 0
ProgressAfter_ResetOnError(prev, threw, idx) ==
  IF threw THEN [prev EXCEPT !.current = 0] ELSE [prev EXCEPT !.current = idx]

\* setUploadProgress(prev => ({ ...prev, current: i + 1 })), run on success
ProgressAfter(prev, threw, idx) ==
  IF threw THEN prev ELSE [prev EXCEPT !.current = idx]

\* newDocs after the try/catch of the loop body
NewDocsAfter(docs, threw, doc) ==
  IF threw THEN docs ELSE Append(docs, doc)

\* mutant of DocumentsAfter: the new records are put before the corpus
DocumentsAfter_Prepend(prev, docs) == docs \o prev

\* setDocuments(prev => [...prev, ...newDocs])
DocumentsAfter(prev, docs) == prev \o docs

\* the continuation of handleFileUpload after `await extractPdfMetadata':
\* the rest of the loop body, then either the next iteration up to its
\* await, or the statements after the loop
ExtractContinue ==
  /\ pc = "settled"
  /\ LET threw == ExtractThrows(extractResp)
         uuid == randomUUID(uuidCount + 1)
         doc == ExtractResult(files[i], uuid, extractResp)
         docs == NewDocsAfter(newDocs, threw, doc)
     IN /\ uuidCount' = IF threw THEN uuidCount ELSE uuidCount + 1
        /\ uploadProgress' = ProgressAfter(uploadProgress, threw, i)
        /\ IF i < Len(files)
           THEN /\ i' = i + 1
                /\ attempted' = Append(attempted, i + 1)
                /\ pc' = "reading"
                /\ newDocs' = docs
                /\ outcomes' = Append(outcomes, ~threw)
                /\ UNCHANGED <<documents, isProcessing, files>>
           ELSE /\ documents' = DocumentsAfter(documents, docs)
                /\ isProcessing' = FALSE
                /\ pc' = "idle"
                \* the handler returns: its locals are gone
                /\ files' = << >>
                /\ i' = 0
                /\ newDocs' = << >>
                /\ attempted' = << >>
                /\ outcomes' = << >>
  /\ extractResp' = NoResp
  /\ UNCHANGED inFlight
  /\ UNCHANGED chatVars

\* ---- deleteDocument ----
RECURSIVE Filter(_, _)
\* prev.filter(d => d.id !== id)
Filter(docs, id) ==
  IF docs = << >> THEN << >>
  ELSE IF Head(docs).id # id THEN <<Head(docs)>> \o Filter(Tail(docs), id)
       ELSE Filter(Tail(docs), id)

DeleteIds == { randomUUID(1), <<"x">> }

deleteDocument(id) ==
  /\ documents' = Filter(documents, id)
  /\ UNCHANGED batchVars
  /\ UNCHANGED chatVars

\* ---- interrogateDocuments ----
\* the template literal of one document
DocBlock(doc) ==
  <<"[Document: ">> \o TemplateStr(doc.fileName) \o
  <<", Sender: ">> \o TemplateStr(doc.sender) \o
  <<", Recipient: ">> \o TemplateStr(doc.recipient) \o
  <<", Date: ">> \o TemplateStr(doc.date) \o
  <<"]\nContent: ">> \o TemplateStr(doc.content)

Separator == <<"\n\n---\n\n">>

RECURSIVE Join(_, _)
\* Array.prototype.join
Join(parts, sep) ==
  IF parts = << >> THEN << >>
  ELSE IF Len(parts) = 1 THEN parts[1]
       ELSE parts[1] \o sep \o Join(Tail(parts), sep)

\* mutant of Context: the blocks are joined in reverse corpus order
Context_Reversed(docs) ==
  Join([n \in 1..Len(docs) |-> DocBlock(docs[Len(docs) + 1 - n])], Separator)

\* documents.map(doc => `...`).join("\n\n---\n\n")
Context(docs) == Join([n \in 1..Len(docs) |-> DocBlock(docs[n])], Separator)

SystemFraming == <<"You are a professional assistant ... CONTEXT:\n  ">>
SystemPrompt(context) == SystemFraming \o context

\* mutant of ServiceRole: the role is passed through unmapped
ServiceRole_Identity(role) == role

\* h.role === 'user' ? 'user' : 'model'
ServiceRole(role) == IF role = "user" THEN "user" ELSE "model"

\* the contents array of the interrogation request
Contents(q, history) ==
  [n \in 1..Len(history) |->
     [role |-> ServiceRole(history[n].role), text |-> history[n].text]]
  \o << [role |-> "user", text |-> q] >>

\* the generateContent request interrogateDocuments issues
InterrogateRequest(q, docs, history) ==
  [active |-> TRUE,
   contents |-> Contents(q, history),
   systemInstruction |-> SystemPrompt(Context(docs))]

\* mutant of InterrogateResult: the response text is returned as it is
InterrogateResult_NoFallback(text) == text

\* response.text || "I couldn't find ..."
InterrogateResult(text) == Or(text, Fallback)

\* ---- handleSendMessage ----
setQuery(q) ==
  /\ query' = q
  /\ UNCHANGED <<chatMessages, isChatLoading, chatReq, chatResp, documents>>
  /\ UNCHANGED batchVars

\* chatMessages.map(m => ({ role: m.role, text: m.text }))
HistoryOf(messages) ==
  [n \in 1..Len(messages) |-> [role |-> messages[n].role, text |-> messages[n].text]]

\* mutant of handleSendMessage: the early return does not test isChatLoading
handleSendMessage_NoLoadingCheck ==
  /\ Truthy(Trim(query))
  /\ Len(chatMessages) + 2 <= MaxTurns
  /\ chatMessages' = Append(chatMessages, [role |-> "user", text |-> query])
  /\ query' = << >>
  /\ isChatLoading' = TRUE
  /\ chatReq' = InterrogateRequest(query, documents, HistoryOf(chatMessages))
  /\ UNCHANGED <<chatResp, documents>>
  /\ UNCHANGED batchVars

\* the submit event: everything up to the await inside interrogateDocuments
handleSendMessage ==
  /\ Truthy(Trim(query))
  /\ ~isChatLoading
  /\ Len(chatMessages) + 2 <= MaxTurns
  /\ chatMessages' = Append(chatMessages, [role |-> "user", text |-> query])
  /\ query' = << >>
  /\ isChatLoading' = TRUE
  /\ chatReq' = InterrogateRequest(query, documents, HistoryOf(chatMessages))
  /\ UNCHANGED <<chatResp, documents>>
  /\ UNCHANGED batchVars

\* the service settles the interrogation request
ChatSettle(resp) ==
  /\ chatReq.active
  /\ chatResp = NoChatResp
  /\ chatResp' = resp
  /\ UNCHANGED <<chatMessages, query, isChatLoading, chatReq, documents>>
  /\ UNCHANGED batchVars

\* mutant of MessagesAfter: the catch block appends an assistant turn too
MessagesAfter_AppendOnError(messages, resp) ==
  Append(messages, [role |-> "assistant",
                    text |-> IF resp.ok THEN InterrogateResult(resp.text) ELSE << >>])

\* mutant of MessagesAfter: the assistant turn is appended to the
\* chatMessages of the render that submitted the query (a stale closure),
\* which drops the user turn appended since
MessagesAfter_StaleClosure(messages, resp) ==
  IF resp.ok
  THEN Append(SubSeq(messages, 1, Len(messages) - 1),
              [role |-> "assistant", text |-> InterrogateResult(resp.text)])
  ELSE messages

\* chatMessages after the try/catch of handleSendMessage
MessagesAfter(messages, resp) ==
  IF resp.ok
  THEN Append(messages, [role |-> "assistant", text |-> InterrogateResult(resp.text)])
  ELSE messages

\* the continuation of handleSendMessage after `await interrogateDocuments'
ChatContinue ==
  /\ chatResp # NoChatResp
  /\ chatMessages' = MessagesAfter(chatMessages, chatResp)
  /\ isChatLoading' = FALSE
  /\ chatReq' = NoReq
  /\ chatResp' = NoChatResp
  /\ UNCHANGED <<query, documents>>
  /\ UNCHANGED batchVars

Next ==
  \/ \E fl \in FileLists : handleFileUpload(fl)
  \/ FileReadLoaded
  \/ FileReadError
  \/ \E resp \in ExtractResponses : ExtractSettle(resp)
  \/ ExtractContinue
  \/ \E id \in DeleteIds : deleteDocument(id)
  \/ \E q \in Queries : setQuery(q)
  \/ handleSendMessage
  \/ \E resp \in ChatResponses : ChatSettle(resp)
  \/ ChatContinue

Spec == Init /\ [][Next]_vars

\* The event loop runs every continuation that is ready, the FileReader
\* always fires loadend, and every service call settles.
FairSpec ==
  /\ Spec
  /\ WF_vars(FileReadLoaded \/ FileReadError)
  /\ WF_vars(\E resp \in ExtractResponses : ExtractSettle(resp))
  /\ WF_vars(ExtractContinue)
  /\ WF_vars(\E resp \in ChatResponses : ChatSettle(resp))
  /\ WF_vars(ChatContinue)

\* ======================= properties =======================

Last(s) == s[Len(s)]
Ids(docs) == { docs[n].id : n \in 1..Len(docs) }
RemoveAt(s, n) == SubSeq(s, 1, n - 1) \o SubSeq(s, n + 1, Len(s))

\* C1: every document in the corpus has non-empty content and non-empty
\* summary, whatever the service answered to the extraction request.
C1_CorpusValidated ==
  \A n \in 1..Len(documents) :
    /\ documents[n].content \notin {undefined, << >>}
    /\ documents[n].summary \notin {undefined, << >>}

\* C2: once handleFileUpload has completed (isProcessing is false again),
\* uploadProgress.current equals uploadProgress.total, whichever files failed.
C2_ProgressReachesTotal ==
  ~isProcessing => uploadProgress.current = uploadProgress.total

\* C3: a batch always completes: whenever isProcessing is true it becomes
\* false again, whatever happens to the extraction of each file.
C3_BatchCompletes == isProcessing ~> ~isProcessing

\* the step of handleFileUpload in which an extraction returned a record
ExtractSucceeded == pc = "settled" /\ uuidCount' = uuidCount + 1
\* the record that step pushed
PushedDoc == IF pc' = "idle" THEN Last(documents') ELSE Last(newDocs')

\* C4: the record of a successful extraction carries the name of the input
\* file and the locally generated identifier, whatever keys the payload has.
C4_LocalIdAndFileName ==
  [][ExtractSucceeded =>
       /\ PushedDoc.fileName = files[i]
       /\ PushedDoc.id = randomUUID(uuidCount')]_vars

\* C5: no two documents in the corpus have the same id.
C5_UniqueIds ==
  \A m, n \in 1..Len(documents) :
    m # n => documents[m].id # documents[n].id

\* C6: deleteDocument(id) removes exactly one entry when the id is present,
\* keeps the others in order, changes nothing when the id is absent, and
\* leaves the conversation history and the progress counter alone.
C6_DeleteExactlyOne ==
  [][\A id \in DeleteIds :
       deleteDocument(id) =>
         /\ id \in Ids(documents) =>
              \E n \in 1..Len(documents) :
                documents[n].id = id /\ documents' = RemoveAt(documents, n)
         /\ id \notin Ids(documents) => documents' = documents
         /\ chatMessages' = chatMessages
         /\ uploadProgress' = uploadProgress]_vars

\* the step of handleSendMessage that issues the interrogation request
ChatSendStep == ~chatReq.active /\ chatReq'.active
\* the step of handleSendMessage that handles a rejected interrogation
ChatFailStep == chatResp = ChatRejected /\ chatResp' = NoChatResp
\* the step of handleSendMessage that handles a fulfilled interrogation
ChatAnswerStep == chatResp.ok /\ chatResp' = NoChatResp

\* C7: a failed interrogation appends no assistant turn, issues no further
\* request and sets isChatLoading back to false; an assistant turn is only
\* appended for a fulfilled interrogation, with the service's answer or the
\* fallback message; a request is only issued together with a user turn.
C7_FailureAppendsNoTurn ==
  [][/\ ChatFailStep =>
          /\ chatMessages' = chatMessages
          /\ ~chatReq'.active
          /\ ~isChatLoading'
     /\ (chatMessages' # chatMessages /\ Last(chatMessages').role = "assistant") =>
          /\ chatResp.ok
          /\ chatMessages' = Append(chatMessages, Last(chatMessages'))
          /\ Last(chatMessages').text =
               IF chatResp.text \in {undefined, << >>} THEN Fallback ELSE chatResp.text
     /\ (chatReq'.active /\ chatReq' # chatReq) =>
          /\ ~chatReq.active
          /\ chatMessages' = Append(chatMessages, [role |-> "user", text |-> query])
    ]_vars

\* a user turn is last and nothing is loading: its interrogation failed
C7_Witness ==
  /\ chatMessages # << >>
  /\ Last(chatMessages).role = "user"
  /\ ~isChatLoading
  /\ ~chatReq.active

\* C8: the request carries exactly the turns that were in the history
\* before the submission, in order, user as user and assistant as model,
\* then the new query once as the last turn; the system framing is the
\* instruction of the request and not one of its turns.
C8_RequestTurns ==
  [][ChatSendStep =>
       LET c == chatReq'.contents
       IN /\ Len(c) = Len(chatMessages) + 1
          /\ \A n \in 1..Len(chatMessages) :
               /\ c[n].text = chatMessages[n].text
               /\ chatMessages[n].role = "user" => c[n].role = "user"
               /\ chatMessages[n].role = "assistant" => c[n].role = "model"
          /\ c[Len(c)] = [role |-> "user", text |-> query]
          /\ \A n \in 1..Len(c) : c[n].text # SystemFraming
          /\ SubSeq(chatReq'.systemInstruction, 1, Len(SystemFraming)) = SystemFraming
    ]_vars

\* a request in flight that carries a user turn, an assistant turn and the query
C8_Witness ==
  /\ chatReq.active
  /\ Len(chatReq.contents) = 3
  /\ chatReq.contents[1].role = "user"
  /\ chatReq.contents[2].role = "model"

\* C9: the answer taken from a fulfilled interrogation is never empty, and
\* it is the fallback message when the response text is empty or absent.
C9_FallbackOnEmptyAnswer ==
  [][ChatAnswerStep =>
       /\ Len(chatMessages') = Len(chatMessages) + 1
       /\ Last(chatMessages').text \notin {undefined, << >>}
       /\ chatResp.text \in {undefined, << >>} => Last(chatMessages').text = Fallback
    ]_vars

\* the last turn is the assistant's fallback message
C9_Witness ==
  /\ chatMessages # << >>
  /\ Last(chatMessages).role = "assistant"
  /\ Last(chatMessages).text = Fallback

\* a field as it shows in a block: its text, or "undefined" when it is absent
Shown(v) == IF v = undefined THEN <<"u","n","d","e","f","i","n","e","d">> ELSE v

LabeledBlock(d) ==
  <<"[Document: ">> \o Shown(d.fileName) \o <<", Sender: ">> \o Shown(d.sender) \o
  <<", Recipient: ">> \o Shown(d.recipient) \o <<", Date: ">> \o Shown(d.date) \o
  <<"]\nContent: ">> \o Shown(d.content)

\* ctx is the labeled blocks of docs, in the order of docs, one separator
\* between two neighbours, and nothing else
ContextLayout(ctx, docs) ==
  IF docs = << >> THEN ctx = << >>
  ELSE LET N == Len(docs)
           Off[n \in 1..N] ==
             IF n = 1 THEN 0 ELSE Off[n - 1] + Len(LabeledBlock(docs[n - 1])) + 1
           End(n) == Off[n] + Len(LabeledBlock(docs[n]))
       IN /\ \A n \in 1..N : SubSeq(ctx, Off[n] + 1, End(n)) = LabeledBlock(docs[n])
          /\ \A n \in 1..(N - 1) : ctx[End(n) + 1] = "\n\n---\n\n"
          /\ Len(ctx) = End(N)

\* C10: the context of an interrogation is empty for an empty corpus, and
\* otherwise one labeled block per document (fileName, sender, recipient,
\* date, content) in corpus order, joined by the separator, every document
\* present and whole.
C10_ContextBlocks ==
  [][ChatSendStep =>
       ContextLayout(SubSeq(chatReq'.systemInstruction, Len(SystemFraming) + 1,
                            Len(chatReq'.systemInstruction)),
                     documents)]_vars

\* a request in flight whose context holds two blocks that differ
C10_Witness ==
  /\ chatReq.active
  /\ \E n \in 1..Len(chatReq.systemInstruction) :
       chatReq.systemInstruction[n] = "\n\n---\n\n"
  /\ \E m, n \in 1..Len(chatReq.systemInstruction) :
       /\ chatReq.systemInstruction[m] = ", Sender: "
       /\ chatReq.systemInstruction[n] = ", Sender: "
       /\ chatReq.systemInstruction[m + 1] # chatReq.systemInstruction[n + 1]

\* C11: at most one extraction request is in flight; the request for a file
\* is issued only when none is in flight and every earlier file of the batch
\* has completed (returned or thrown); the file list of a processing batch is
\* never replaced by another batch.
C11_OneExtractionInFlight ==
  [][/\ inFlight' <= 1
     /\ inFlight' > inFlight =>
          /\ inFlight = 0
          /\ isProcessing
          /\ Len(outcomes) = i - 1
          /\ attempted = [n \in 1..i |-> n]
     /\ (isProcessing /\ isProcessing') => files' = files
     /\ (files' # files /\ files' # << >>) => (~isProcessing /\ inFlight = 0)
    ]_vars

\* the request for the second file is in flight, the first file is done
C11_Witness == inFlight = 1 /\ i = 2 /\ Len(outcomes) = 1

\* C12: a batch starts with uploadProgress.current = 0 and total = the number
\* of files; while it is processing the total stays, current never decreases
\* and never exceeds total, and a new value of current is the position of
\* the file that just completed, positions being visited in increasing order.
C12_ProgressInDocumentOrder ==
  [][/\ (~isProcessing /\ isProcessing') =>
          uploadProgress' = [current |-> 0, total |-> Len(files')]
     /\ isProcessing =>
          /\ uploadProgress'.total = uploadProgress.total
          /\ uploadProgress'.current >= uploadProgress.current
          /\ uploadProgress'.current <= uploadProgress'.total
          /\ uploadProgress'.current # uploadProgress.current =>
               /\ uploadProgress'.current = i
               /\ Len(outcomes) = i - 1
          /\ isProcessing' => i' >= i
    ]_vars

\* the first of two files has completed and set the counter to 1
C12_Witness ==
  /\ isProcessing
  /\ uploadProgress = [current |-> 1, total |-> 2]
  /\ i = 2

\* chatMessages only grows at its end in this step
AppendOnlyStep ==
  /\ Len(chatMessages') >= Len(chatMessages)
  /\ SubSeq(chatMessages', 1, Len(chatMessages)) = chatMessages

\* user, assistant, user, assistant, ...
Alternates(h) ==
  \A n \in 1..Len(h) : h[n].role = IF n % 2 = 1 THEN "user" ELSE "assistant"

\* C13 (as claimed): the conversation history is append-only and user and
\* assistant turns strictly alternate, starting with a user turn, in every
\* reachable state, also after an interrogation that failed.
C13_StrictAlternation ==
  [][AppendOnlyStep /\ Alternates(chatMessages')]_vars

\* C13 (amended): the conversation history is append-only, its first turn is
\* a user turn, and every assistant turn comes right after a user turn (no
\* two consecutive assistant turns); two consecutive user turns can occur.
C13_AppendOnlyNoDoubleAssistant ==
  [][/\ AppendOnlyStep
     /\ chatMessages' # << >> => chatMessages'[1].role = "user"
     /\ \A n \in 2..Len(chatMessages') :
          chatMessages'[n].role = "assistant" => chatMessages'[n - 1].role = "user"
    ]_vars

\* two user turns next to each other: the first one's interrogation failed
C13_Witness ==
  \E n \in 1..(Len(chatMessages) - 1) :
    chatMessages[n].role = "user" /\ chatMessages[n + 1].role = "user"

RECURSIVE IsSubsequence(_, _)
\* a is b with some entries left out
IsSubsequence(a, b) ==
  IF a = << >> THEN TRUE
  ELSE IF b = << >> THEN FALSE
       ELSE IF Head(a) = Head(b) THEN IsSubsequence(Tail(a), Tail(b))
            ELSE IsSubsequence(a, Tail(b))

\* the settled extraction yields a record: the call was fulfilled and its
\* text is empty, absent or well-formed JSON
Returned(resp) ==
  resp.ok /\ (resp.text.wellFormed \/ resp.text.kind \in {"empty", "undefined"})

CountTrue(bs) == Cardinality({ k \in 1..Len(bs) : bs[k] })

\* C14: a batch changes the corpus only at its completion.  While it is
\* processing the corpus can only lose entries (deleteDocument) and the
\* successes are collected in order, one per returned extraction.  At
\* completion the corpus becomes the corpus of that moment followed by the
\* collected records; their number is the number of returned extractions,
\* at most the number of files, and equal to it only if every one returned.
C14_CorpusChangesAtCompletion ==
  [][/\ (~isProcessing /\ isProcessing') => documents' = documents
     /\ (isProcessing /\ isProcessing') =>
          /\ IsSubsequence(documents', documents)
          /\ Len(newDocs) = CountTrue(outcomes)
          /\ (pc = "settled" /\ pc' # "settled") =>
               /\ Len(newDocs') = Len(newDocs) + (IF Returned(extractResp) THEN 1 ELSE 0)
               /\ SubSeq(newDocs', 1, Len(newDocs)) = newDocs
          /\ (pc # "settled" \/ pc' = "settled") => newDocs' = newDocs
     /\ (isProcessing /\ ~isProcessing') =>
          LET outs == Append(outcomes, Returned(extractResp))
              added == SubSeq(documents', Len(documents) + 1, Len(documents'))
          IN /\ Len(documents') >= Len(documents)
             /\ SubSeq(documents', 1, Len(documents)) = documents
             /\ SubSeq(added, 1, Len(newDocs)) = newDocs
             /\ Len(outs) = Len(files)
             /\ Len(added) = CountTrue(outs)
             /\ Len(added) <= Len(files)
             /\ Len(added) = Len(files) => \A k \in 1..Len(outs) : outs[k]
    ]_vars

\* a second batch, of one file, has completed and put its record behind the
\* record the corpus already held
C14_Witness ==
  /\ ~isProcessing
  /\ uploadProgress = [current |-> 1, total |-> 1]
  /\ Len(documents) = 2
  /\ documents[1] # documents[2]

\* the step that issues an interrogation request
ChatIssueStep == chatReq'.active /\ chatReq' # chatReq
\* the step that appends a user turn
UserTurnStep ==
  Len(chatMessages') > Len(chatMessages) /\ Last(chatMessages').role = "user"
\* q has a glyph that is not white space
NotBlank(q) == \E n \in 1..Len(q) : q[n] # " "

\* C15: an interrogation request is issued, and a user turn appended, only
\* by a submission made while nothing is loading and with a query that is
\* not blank, so at most one request is in flight (isChatLoading tells
\* whether one is); the answer of a request is appended right after the user
\* turn that carries the query of that request.
C15_OneInterrogationInFlight ==
  [][/\ isChatLoading <=> chatReq.active
     /\ (ChatIssueStep \/ UserTurnStep) =>
          /\ ~isChatLoading
          /\ ~chatReq.active
          /\ chatResp = NoChatResp
          /\ NotBlank(query)
          /\ ChatIssueStep /\ UserTurnStep
          /\ chatMessages' = Append(chatMessages, [role |-> "user", text |-> query])
     /\ ChatAnswerStep =>
          /\ Last(chatMessages).role = "user"
          /\ Last(chatMessages).text = Last(chatReq.contents).text
          /\ SubSeq(chatMessages', 1, Len(chatMessages)) = chatMessages
          /\ Len(chatMessages') = Len(chatMessages) + 1
          /\ Last(chatMessages').role = "assistant"
     /\ \A n \in 1..Len(chatMessages') :
          chatMessages'[n].role = "assistant" =>
            n > 1 /\ chatMessages'[n - 1].role = "user"
    ]_vars

\* a second interrogation is in flight behind an answered one
C15_Witness ==
  /\ isChatLoading
  /\ chatResp = NoChatResp
  /\ Len(chatMessages) = 3
  /\ chatMessages[2].role = "assistant"
  /\ chatMessages[3].role = "user"
====
